---- MODULE Spec2Model ----
(***************************************************************************)
(* Model of the OpenWeather pull connector (app/actions).                  *)
(*                                                                         *)
(* action_pull_observations is a sequential coroutine.  Every await on an  *)
(* external collaborator (weather fetch, state store, downstream send) is  *)
(* one step of the model; the environment chooses the outcome of the call. *)
(* Variables whose comment says "history" record the calls that were made  *)
(* (what a mock of the collaborator would record); the handler never reads *)
(* them.                                                                   *)
(*                                                                         *)
(* Spec is the pull action.  TransformSpec applies the two transform       *)
(* functions to payloads drawn from a bounded set, and SourceIdSpec calls  *)
(* generate_source_id on bounded coordinates.                              *)
(* CancelSpec is the pull action with cancellation of its task,            *)
(* OverlapSpec interleaves two runs over one source, AuthSpec calls        *)
(* action_auth, ClientSpec calls the two weather clients, LocationsSpec    *)
(* calls get_weather_data_for_locations and ConfigSpec validates raw pull  *)
(* configurations.                                                         *)
(***************************************************************************)
EXTENDS Integers, Sequences, FiniteSets, TLC

\* ------------------------------------------------------------------ bounds
MaxLocs == 2        \* longest configured location list
MaxTime == 2        \* provider timestamps (dt) range over 1..MaxTime
MaxRuns == 2        \* scheduled runs of the pull action that are explored
MaxKeys == 3        \* payloads have at most MaxKeys top-level keys, or lack at most MaxKeys
MaxCoord == 10      \* generate_source_id is called with coordinates in -MaxCoord..MaxCoord

\* ------------------------------------------------------- program constants
Attempts == 3       \* stamina.retry_context(attempts=3)

\* Python's None, and mappings as functions from the keys they have.
None      == [none |-> TRUE]
EmptyDict == [k \in {} |-> 0]
HasKey(m, k) == k \in DOMAIN m
\* dict.get(k): the value, or None for a key the mapping does not have
Get(m, k) == IF HasKey(m, k) THEN m[k] ELSE None
Restrict(m, ks) == [k \in ks |-> m[k]]
Max(a, b) == IF a >= b THEN a ELSE b

Times  == 1..MaxTime
Coords == {<<10, 30>>, <<20, 30>>}
Names  == <<"A", "B", "C", "D">>

\* The integration under test and the key space of the state store.
ThisIntegration == "int-1"
PullAction      == "pull_observations"
IntegrationIds  == {"int-1", "int-2"}
ActionIds       == {"pull_observations", "auth"}

\* ---------------------------------------------------------------- helpers
\* Text is a sequence of pieces: single characters, or blocks standing for
\* longer text.  A coordinate is a float with no fractional part, written here
\* as its integer value; str() of it is the sign, the decimal digits and ".0".
Digit(n) == <<"0", "1", "2", "3", "4", "5", "6", "7", "8", "9">>[n + 1]
RECURSIVE Digits(_)
Digits(n) == IF n < 10 THEN <<Digit(n)>> ELSE Digits(n \div 10) \o <<Digit(n % 10)>>
FloatStr(x) ==
    (IF x < 0 THEN <<"-">> ELSE <<>>) \o Digits(IF x < 0 THEN -x ELSE x) \o <<".", "0">>

\* Variant: only the latitude goes into the hashed string.
coord_string_LatOnly(lat, lon) == FloatStr(lat)

\* coord_string = f"{lat},{lon}"
coord_string(lat, lon) == FloatStr(lat) \o <<",">> \o FloatStr(lon)

\* hashlib.md5(text.encode()).hexdigest(): 32 hexadecimal characters, modelled
\* as one block determined by the hashed text (an md5 collision is not
\* modelled).
hexdigest(text) == <<[md5 |-> text]>>

\* generate_source_id: md5 hex digest of the string "lat,lon".
generate_source_id(lat, lon) == hexdigest(coord_string(lat, lon))

SourceIds == {generate_source_id(c[1], c[2]) : c \in Coords}
Keys      == IntegrationIds \X ActionIds \X SourceIds

\* datetime.datetime.fromtimestamp(dt, tz=utc): an aware datetime.
fromtimestamp(dt) == [instant |-> dt, utcoffset |-> 0]
\* datetime.isoformat(): wall-clock text followed by the UTC offset.
isoformat(d) == [iso8601 |-> d.instant + d.utcoffset, offset |-> d.utcoffset]
\* datetime.fromisoformat(): parses the wall-clock text and the offset back.
fromisoformat(s) == [instant |-> s.iso8601 - s.offset, utcoffset |-> s.offset]
\* Variant: the comparison is the other way round.
DatetimeLe_Reversed(a, b) == b.instant <= a.instant
\* comparison of two aware datetimes compares instants
DatetimeLe(a, b) == a.instant <= b.instant

\* ------------------------------------------------------- provider payloads
\* A payload is a mapping; only the keys the orchestrator reads are modelled.
CoordOf(c) == [lat |-> c[1], lon |-> c[2]]
PayloadsFor(c) ==
    {EmptyDict}
    \cup {[dt |-> t, coord |-> CoordOf(c)] : t \in Times}
    \cup {[coord |-> CoordOf(c)]}
    \cup {[dt |-> t] : t \in Times}

\* A scalar of the provider's JSON other than a timestamp or a coordinate.
Val(x) == [val |-> x]

\* The provider's answer with every section and every field of each section
\* (the sample of the transformer's tests, with gust, 3h rain and snow added).
FullPayload ==
    [coord      |-> CoordOf(<<20, 30>>),
     weather    |-> <<[id |-> Val("500"), main |-> Val("Rain"),
                       description |-> Val("light rain"), icon |-> Val("10d")]>>,
     base       |-> Val("stations"),
     main       |-> [temp |-> Val("16.88"), feels_like |-> Val("16.92"),
                     temp_min |-> Val("15.10"), temp_max |-> Val("18.20"),
                     pressure |-> Val("1016"), humidity |-> Val("88"),
                     sea_level |-> Val("1017"), grnd_level |-> Val("841")],
     visibility |-> Val("10000"),
     wind       |-> [speed |-> Val("3.6"), deg |-> Val("240"), gust |-> Val("7.2")],
     rain       |-> ("1h" :> Val("0.91") @@ "3h" :> Val("2.5")),
     snow       |-> ("1h" :> Val("0.2") @@ "3h" :> Val("0.6")),
     clouds     |-> [all |-> Val("100")],
     dt         |-> 1760015910,
     sys        |-> [type |-> Val("1"), id |-> Val("7128"), country |-> Val("MX"),
                     sunrise |-> 1760013996, sunset |-> 1760056454],
     timezone   |-> Val("-21600"),
     id         |-> Val("4005539"),
     name       |-> Val("Guadalajara"),
     cod        |-> Val("200")]

\* The same answer when the provider reports only part of each section.
SparsePayload ==
    [coord      |-> CoordOf(<<20, 30>>),
     weather    |-> <<>>,
     base       |-> Val("stations"),
     main       |-> [temp |-> Val("16.88"), humidity |-> Val("88")],
     visibility |-> Val("10000"),
     wind       |-> [speed |-> Val("3.6")],
     rain       |-> ("1h" :> Val("0.91")),
     snow       |-> ("3h" :> Val("0.6")),
     clouds     |-> EmptyDict,
     dt         |-> 1760015910,
     sys        |-> [country |-> Val("MX")],
     timezone   |-> Val("-21600"),
     id         |-> Val("4005539"),
     name       |-> Val("Guadalajara"),
     cod        |-> Val("200")]

\* The payloads handed to the transforms: either answer, cut down to a few of
\* its top-level keys or to all but a few of them.
TopLevelKeys == DOMAIN FullPayload
KeySets ==
    {ks \in SUBSET TopLevelKeys :
        Cardinality(ks) <= MaxKeys \/ Cardinality(TopLevelKeys \ ks) <= MaxKeys}
Payloads == {Restrict(p, ks) : p \in {FullPayload, SparsePayload}, ks \in KeySets}

\* The location names and coordinates handed to the transforms.
Stations == {[name |-> Names[k], lat |-> c[1], lon |-> c[2]] : k \in 1..2, c \in Coords}
\* UTC offsets of the host's local timezone, in seconds.
HostOffsets == {0 - 21600, 0, 3600}

\* Variant: everything counts as truthy.
Truthy_Always(p) == TRUE

\* Python truthiness of weather_data: None and {} are falsy.
Truthy(p) == p # None /\ p # EmptyDict

\* Exceptions a call can raise.
HTTPError       == [type |-> "HTTPError"]
HTTPStatus401   == [type |-> "HTTPStatusError", status |-> 401]
ValueError      == [type |-> "ValueError"]
KeyError        == [type |-> "KeyError"]
ConfigurationNotFound == [type |-> "ConfigurationNotFound"]
RequestError    == [type |-> "RequestError"]
ValidationError == [type |-> "ValidationError"]
\* httpx.HTTPStatusError and httpx.RequestError are subclasses of httpx.HTTPError
IsHTTPError(e)  == e.type \in {"HTTPError", "HTTPStatusError", "RequestError"}

\* ------------------------------------------------------------------ state
VARIABLES
    configurations,         \* action ids the integration has a configuration for
    locations,              \* action_config.locations
    store,                  \* the state store: key -> None or a state record
    runNo,                  \* number of pull runs started so far
    pc,                     \* position of the running coroutine
    i,                      \* index of the location being processed
    attempt,                \* attempt.num of the retry loop in progress
    weather_data,           \* local weather_data
    total_observations,     \* local total_observations
    response_per_location,  \* local response_per_location
    failed_locations,       \* local failed_locations
    result,                 \* what the run returned (None while it has not)
    error,                  \* the exception the run raised (None if it has not)
    fetchLog,               \* history: fetch calls made so far for location i
    sendLog,                \* history: send calls made so far for location i
    outcomes,               \* history: how each finished location of the run ended
    stateReads, stateWrites,\* history: get_state and set_state calls in the run
    hadPrior,               \* history: some source had state when the run began
    delivered,              \* history: newest instant delivered so far, per source (0: none)
    \* a direct call of one of the two transform functions
    payload,                \* the payload passed to the transform
    station,                \* the location name and coordinates passed with it
    hostOffset,             \* UTC offset (seconds) of the host's local timezone
    called,                 \* the function applied last ("none" before any call)
    returned,               \* what that call returned or raised
    \* direct calls of generate_source_id
    idCalls,                \* history: the calls made, each with its arguments and result
    \* direct calls of action_auth
    authCalls,              \* history: what validate_api_key did and what action_auth did
    \* direct calls of the two weather clients
    clientCalls,            \* history: arguments, request sent, response and result
    \* validation of a pull configuration
    config_data,            \* the raw configuration given to PullObservationsConfig
    validated,              \* what parse_obj returned or raised (None before the call)
    \* two pull runs of one integration over one location, overlapping in time
    runs,                   \* per run: position, fetched reading, state it read
    sourceState,            \* the state record of the location's source
    deliveries              \* history: the readings delivered, with the run that sent them

locals == <<pc, i, attempt, weather_data, total_observations,
            response_per_location, failed_locations, result, error>>
history == <<fetchLog, sendLog, outcomes,
             stateReads, stateWrites, hadPrior, delivered>>
pullVars == <<configurations, locations, store, runNo, locals, history>>
transformVars == <<payload, station, hostOffset, called, returned>>
configVars == <<config_data, validated>>
overlapVars == <<runs, sourceState, deliveries>>
vars == <<pullVars, transformVars, idCalls, authCalls, clientCalls, configVars,
          overlapVars>>

\* Location lists the operator can configure: the k-th location is named
\* Names[k]; coordinates may repeat.  (The handler itself accepts an empty list.)
LocationLists ==
    UNION {[1..n -> Coords] : n \in 0..MaxLocs}
MkLocations(cs) ==
    [k \in 1..Len(cs) |-> [name |-> Names[k], lat |-> cs[k][1], lon |-> cs[k][2]]]

\* --------------------------------------------------------- pure operations
\* Variant: a missing 'auth' configuration is not detected.
get_auth_config_Lenient(cfgs) == [value |-> [api_key |-> "secret"]]

\* client.get_auth_config: the 'auth' configuration, or ConfigurationNotFound.
get_auth_config(cfgs) ==
    IF "auth" \notin cfgs
    THEN [raised |-> ConfigurationNotFound]
    ELSE [value |-> [api_key |-> "secret"]]

\* stamina.retry_context(on=httpx.HTTPError, ...): which exceptions are retried
Retryable(e) == IsHTTPError(e)

\* Variant: one attempt too many.
StopRetrying_OffByOne(num, deadline) == num > Attempts \/ deadline

\* stamina stops retrying after `attempts` attempts, or when the total time
\* allowed for the retries has elapsed (deadline), whichever comes first.
StopRetrying(num, deadline) == num >= Attempts \/ deadline

\* Variant: the second attempt already counts as the final one.
FinalAttempt_Second(num) == num >= 2

\* `if attempt.num >= 3` in both except blocks
FinalAttempt(num) == num >= 3

\* Variant: no handler around the fetch retry loop.
FetchErrorHandled_None(e) == FALSE

\* The try/except around the fetch retry loop: `except httpx.HTTPError: pass`
FetchErrorHandled(e) == IsHTTPError(e)

\* The send retry loop has no handler of its own: its exception reaches the
\* outer `except Exception` which re-raises.
SendErrorHandled(e) == FALSE

\* Variant: `<` instead of `<=`, so an unchanged reading is sent again.
ShouldSend_Strict(current_state, recorded_at) ==
    IF current_state # None /\ HasKey(current_state, "latest_timestamp")
    THEN ~(recorded_at.instant < fromisoformat(current_state.latest_timestamp).instant)
    ELSE TRUE

\* Variant: no staleness test, every reading is sent.
ShouldSend_Always(current_state, recorded_at) == TRUE

\* Staleness test of the handler.
ShouldSend(current_state, recorded_at) ==
    IF current_state # None /\ HasKey(current_state, "latest_timestamp")
    THEN ~DatetimeLe(recorded_at, fromisoformat(current_state.latest_timestamp))
    ELSE TRUE

\* The additional mapping that transform_weather_to_observation builds
\* (lines 45-116): one group of keys per section the payload has.
additional_of(wd) ==
    (IF HasKey(wd, "weather") /\ wd.weather # <<>>
     THEN LET weather_info == wd.weather[1] IN
          [weather_main        |-> Get(weather_info, "main"),
           weather_description |-> Get(weather_info, "description"),
           weather_id          |-> Get(weather_info, "id"),
           weather_icon        |-> Get(weather_info, "icon")]
     ELSE EmptyDict)
    @@ (IF HasKey(wd, "main")
        THEN [temperature |-> Get(wd.main, "temp"),
              feels_like  |-> Get(wd.main, "feels_like"),
              temp_min    |-> Get(wd.main, "temp_min"),
              temp_max    |-> Get(wd.main, "temp_max"),
              pressure    |-> Get(wd.main, "pressure"),
              humidity    |-> Get(wd.main, "humidity"),
              sea_level   |-> Get(wd.main, "sea_level"),
              grnd_level  |-> Get(wd.main, "grnd_level")]
        ELSE EmptyDict)
    @@ (IF HasKey(wd, "visibility") THEN [visibility |-> wd.visibility] ELSE EmptyDict)
    @@ (IF HasKey(wd, "wind")
        THEN [wind_speed |-> Get(wd.wind, "speed"),
              wind_deg   |-> Get(wd.wind, "deg"),
              wind_gust  |-> Get(wd.wind, "gust")]
        ELSE EmptyDict)
    @@ (IF HasKey(wd, "clouds") THEN [clouds_all |-> Get(wd.clouds, "all")] ELSE EmptyDict)
    @@ (IF HasKey(wd, "rain")
        THEN [rain_1h |-> Get(wd.rain, "1h"), rain_3h |-> Get(wd.rain, "3h")]
        ELSE EmptyDict)
    @@ (IF HasKey(wd, "snow")
        THEN [snow_1h |-> Get(wd.snow, "1h"), snow_3h |-> Get(wd.snow, "3h")]
        ELSE EmptyDict)
    @@ (IF HasKey(wd, "sys")
        THEN [country |-> Get(wd.sys, "country")]
             @@ (IF HasKey(wd.sys, "sunrise")
                 THEN [sunrise |-> isoformat(fromtimestamp(wd.sys.sunrise))]
                 ELSE EmptyDict)
             @@ (IF HasKey(wd.sys, "sunset")
                 THEN [sunset |-> isoformat(fromtimestamp(wd.sys.sunset))]
                 ELSE EmptyDict)
        ELSE EmptyDict)
    @@ (IF HasKey(wd, "timezone") THEN [timezone_offset |-> wd.timezone] ELSE EmptyDict)
    @@ (IF HasKey(wd, "name") THEN [city_name |-> wd.name] ELSE EmptyDict)

\* transform_weather_to_observation: the observation, or the KeyError that
\* weather_data['dt'] or weather_data['coord'] raises for a missing key.
transform_weather_to_observation(wd, location_name, source_id) ==
    IF ~HasKey(wd, "dt") \/ ~HasKey(wd, "coord")
    THEN [raised |-> KeyError]
    ELSE [value |->
            [source      |-> source_id,
             source_name |-> location_name,
             type        |-> "stationary-object",
             subtype     |-> "weather_station",
             recorded_at |-> fromtimestamp(wd.dt),
             location    |-> [lat |-> wd.coord.lat, lon |-> wd.coord.lon],
             additional  |-> additional_of(wd)]]

\* datetime.fromtimestamp(ts) with no tz argument: a naive datetime holding the
\* wall-clock time of the host's local timezone, whose UTC offset is `offset`.
fromtimestamp_naive(ts, offset) == [wall |-> ts + offset]
\* naive.isoformat() + "Z": the wall-clock text, marked as UTC.
isoformat_Z(d) == [iso8601 |-> d.wall, offset |-> 0]

\* Variant: visibility is not in the list, so the loop copies it.
ConsumedKeys_NoVisibility ==
    {"coord", "weather", "base", "main", "wind", "clouds", "dt",
     "sys", "timezone", "id", "name", "cod", "rain"}

\* The keys of the payload that the pass-through loop of
\* transform_openweather_data does not copy.
ConsumedKeys ==
    {"coord", "weather", "base", "main", "visibility", "wind", "clouds", "dt",
     "sys", "timezone", "id", "name", "cod", "rain"}

\* The fields of section m other than `promoted`, each under f"{prefix}{k}".
Prefixed(prefix, m, promoted) ==
    LET ks == DOMAIN m \ promoted IN
    [kk \in {prefix \o k : k \in ks} |-> m[CHOOSE k \in ks : prefix \o k = kk]]

\* The additional mapping of transform_openweather_data (lines 44-76); a later
\* assignment to a key replaces an earlier one.
additional_of_openweather(data, offset) ==
    (IF HasKey(data, "clouds") THEN [clouds_all |-> Get(data.clouds, "all")] ELSE EmptyDict)
    @@ (IF HasKey(data, "rain")
        THEN [rain_1h |-> Get(data.rain, "1h"), rain_3h |-> Get(data.rain, "3h")]
        ELSE EmptyDict)
    @@ (IF HasKey(data, "wind")
        THEN Prefixed("wind_", data.wind, {"speed", "deg"})
        ELSE EmptyDict)
    @@ (IF HasKey(data, "main")
        THEN Prefixed("main_", data.main, {"temp", "humidity", "pressure"})
        ELSE EmptyDict)
    @@ (IF HasKey(data, "sys")
        THEN (IF HasKey(data.sys, "sunrise")
              THEN [sunrise |-> isoformat_Z(fromtimestamp_naive(data.sys.sunrise, offset))]
              ELSE EmptyDict)
             @@ (IF HasKey(data.sys, "sunset")
                 THEN [sunset |-> isoformat_Z(fromtimestamp_naive(data.sys.sunset, offset))]
                 ELSE EmptyDict)
        ELSE EmptyDict)
    @@ Restrict(data, DOMAIN data \ ConsumedKeys)

\* transform_openweather_data: None for a falsy payload, the KeyError of
\* data["dt"], or the observation.  `offset` is the UTC offset of the host's
\* local timezone, which datetime.fromtimestamp reads from the environment.
transform_openweather_data(data, location_name, lat, lon, offset) ==
    IF ~Truthy(data) THEN [value |-> None]
    ELSE IF ~HasKey(data, "dt") THEN [raised |-> KeyError]
    ELSE [value |->
            [type        |-> "stationary-object",
             subtype     |-> "weather_station",
             source_name |-> location_name,
             source      |-> generate_source_id(lat, lon),
             location    |-> [latitude |-> lat, longitude |-> lon],
             recorded_at |-> isoformat_Z(fromtimestamp_naive(data.dt, offset)),
             additional  |-> additional_of_openweather(data, offset)]
            @@ (IF HasKey(data, "main")
                THEN [temperature |-> Get(data.main, "temp"),
                      humidity    |-> Get(data.main, "humidity"),
                      pressure    |-> Get(data.main, "pressure")]
                ELSE EmptyDict)
            @@ (IF HasKey(data, "wind")
                THEN [wind_speed     |-> Get(data.wind, "speed"),
                      wind_direction |-> Get(data.wind, "deg")]
                ELSE EmptyDict)
            @@ (IF HasKey(data, "weather") /\ data.weather # <<>>
                THEN [weather_condition |-> Get(data.weather[1], "description")]
                ELSE EmptyDict)]

\* Variant: the timestamp is stored under another key.
NewState_WrongKey(recorded_at, location_name) ==
    [last_timestamp |-> isoformat(recorded_at), location_name |-> location_name]

\* The state record written after a successful send.
NewState(recorded_at, location_name) ==
    [latest_timestamp |-> isoformat(recorded_at), location_name |-> location_name]

\* Entries of response_per_location and failed_locations.
SkippedEntry(name) == [location |-> name, response |-> [text |-> "skipped - no new data"]]
SendErrorEntry(name, e) == [location |-> name, response |-> [errors |-> <<e>>]]
\* Variant: the entry of a sent observation carries no source_id.
RecordedEntry_NoSourceId(name, sid) ==
    [location |-> name, response |-> [status |-> "success"]]
RecordedEntry(name, sid) ==
    [location |-> name, source_id |-> sid, response |-> [status |-> "success"]]
FailedEntry(name, e) == [location |-> name, error |-> e]

\* Variant: a new entry is put in front of the list.
AppendEntry_Front(details, entry) == <<entry>> \o details

\* response_per_location.append(entry)
AppendEntry(details, entry) == Append(details, entry)

\* Variant: the message of an empty result is left out.
BuildResult_NoMessage(total, details, failed) ==
    [observations_extracted |-> total, details |-> details]
    @@ (IF failed # <<>> THEN [failed_locations |-> failed] ELSE EmptyDict)

\* Variant: failed_locations is always put in the result.
BuildResult_AlwaysFailedKey(total, details, failed) ==
    [observations_extracted |-> total, details |-> details,
     failed_locations |-> failed]
    @@ (IF total = 0 THEN [message |-> "No new observations extracted"] ELSE EmptyDict)

\* The result dictionary built after the loop.
BuildResult(total, details, failed) ==
    [observations_extracted |-> total, details |-> details]
    @@ (IF failed # <<>> THEN [failed_locations |-> failed] ELSE EmptyDict)
    @@ (IF total = 0 THEN [message |-> "No new observations extracted"] ELSE EmptyDict)

\* ------------------------------------------------------------------- Init
\* No transform function has been called directly.
NoTransformCall ==
    /\ payload = EmptyDict
    /\ station = [name |-> Names[1], lat |-> 10, lon |-> 30]
    /\ hostOffset = 0
    /\ called = "none"
    /\ returned = None

\* No run of the pull action has started.
NoRun ==
    /\ store = [k \in Keys |-> None]
    /\ runNo = 0
    /\ pc = "idle"
    /\ i = 0
    /\ attempt = 0
    /\ weather_data = None
    /\ total_observations = 0
    /\ response_per_location = <<>>
    /\ failed_locations = <<>>
    /\ result = None
    /\ error = None
    /\ fetchLog = <<>>
    /\ sendLog = <<>>
    /\ outcomes = <<>>
    /\ stateReads = 0
    /\ stateWrites = 0
    /\ hadPrior = FALSE
    /\ delivered = [s \in SourceIds |-> 0]

\* The pull action is not used: an integration with no location that never runs.
NoPullRun ==
    /\ configurations = {"auth"}
    /\ locations = <<>>
    /\ NoRun

\* No auth action, client call or validation, and no overlapping runs.
NoAuthCall == authCalls = <<>>
NoClientCall == clientCalls = <<>>
NoValidation == config_data = None /\ validated = None
NoOverlap == runs = <<>> /\ sourceState = None /\ deliveries = <<>>
NoOtherCall == NoAuthCall /\ NoClientCall /\ NoValidation /\ NoOverlap

Init ==
    /\ configurations \in {{}, {"auth"}}
    /\ locations \in {MkLocations(cs) : cs \in LocationLists}
    /\ NoRun
    /\ NoTransformCall
    /\ idCalls = <<>>
    /\ NoOtherCall

\* ------------------------------------------------------ control transfers
Location   == locations[i]
\* Variant: the source id depends on the position of the location in the list,
\* not on its coordinates.
SourceId_ByPosition == generate_source_id(10 * (1 + (i % 2)), 30)
SourceId   == generate_source_id(Location.lat, Location.lon)
\* Variant: the state is kept under the key of another action.
StateKey_OtherAction == <<ThisIntegration, "auth", SourceId>>
StateKey   == <<ThisIntegration, PullAction, SourceId>>
RecordedAt == fromtimestamp(weather_data.dt)
\* observation = transform_weather_to_observation(weather_data, location_name, source_id)
Observation == transform_weather_to_observation(weather_data, Location.name, SourceId)

\* The loop body for location i is over: next location, or build the result
\* and return it.
EndLocation(tag, total, details, failed, flog, slog) ==
    /\ outcomes' = Append(outcomes, tag)
    /\ total_observations' = total
    /\ response_per_location' = details
    /\ failed_locations' = failed
    /\ error' = error
    /\ weather_data' = None
    /\ IF i < Len(locations)
       THEN /\ i' = i + 1
            /\ pc' = "fetch"
            /\ attempt' = 1
            /\ result' = result
            /\ fetchLog' = <<>>
            /\ sendLog' = <<>>
       ELSE /\ pc' = "returned"
            /\ result' = BuildResult(total, details, failed)
            /\ fetchLog' = flog
            /\ sendLog' = slog
            /\ UNCHANGED <<i, attempt>>

\* Variant: the outer handler hands back the aggregate collected so far.
Abort_ReturnsPartial(e, total, details, failed, flog, slog) ==
    /\ fetchLog' = flog
    /\ sendLog' = slog
    /\ pc' = "raised"
    /\ error' = e
    /\ result' = BuildResult(total, details, failed)
    /\ total_observations' = total
    /\ response_per_location' = details
    /\ failed_locations' = failed
    /\ UNCHANGED <<i, attempt, weather_data, outcomes>>

\* An exception leaves the loop: the outer `except Exception` logs and re-raises.
Abort(e, total, details, failed, flog, slog) ==
    /\ fetchLog' = flog
    /\ sendLog' = slog
    /\ pc' = "raised"
    /\ error' = e
    /\ result' = None
    /\ total_observations' = total
    /\ response_per_location' = details
    /\ failed_locations' = failed
    /\ UNCHANGED <<i, attempt, weather_data, outcomes>>

\* ---------------------------------------------------------------- actions
\* A scheduled run starts: lines 195-205 of the handler.
StartRun ==
    /\ pc \in {"idle", "returned", "raised"}
    /\ runNo < MaxRuns
    /\ runNo' = runNo + 1
    /\ fetchLog' = <<>>
    /\ sendLog' = <<>>
    /\ outcomes' = <<>>
    /\ stateReads' = 0
    /\ stateWrites' = 0
    /\ hadPrior' = (\E k \in Keys : k[1] = ThisIntegration /\ k[2] = PullAction
                                     /\ store[k] # None)
    /\ total_observations' = 0
    /\ response_per_location' = <<>>
    /\ failed_locations' = <<>>
    /\ weather_data' = None
    /\ LET auth == get_auth_config(configurations) IN
       IF HasKey(auth, "raised")
       THEN /\ pc' = "raised"
            /\ error' = auth.raised
            /\ result' = None
            /\ i' = 0
            /\ attempt' = 0
       ELSE /\ error' = None
            /\ IF Len(locations) = 0
               THEN /\ pc' = "returned"
                    /\ result' = BuildResult(0, <<>>, <<>>)
                    /\ i' = 0
                    /\ attempt' = 0
               ELSE /\ pc' = "fetch"
                    /\ result' = None
                    /\ i' = 1
                    /\ attempt' = 1
    /\ UNCHANGED <<configurations, locations, store, delivered>>
    /\ UNCHANGED <<transformVars, idCalls, authCalls, clientCalls, configVars, overlapVars>>

\* What client.fetch_current_weather can do for a request at coordinates c:
\* return a parsed body, or raise.
FetchOutcomes(c) ==
    {[returned |-> p] : p \in PayloadsFor(c)}
    \cup {[raised |-> e] : e \in {HTTPError, HTTPStatus401, ValueError}}

\* How a call ended, as the history variables record it.
CallKind(o) ==
    IF HasKey(o, "returned") THEN "ok"
    ELSE IF o.raised = HTTPStatus401 THEN "401"
    ELSE IF IsHTTPError(o.raised) THEN "http_error"
    ELSE "error"

\* One attempt of the fetch retry loop (lines 217-263).
FetchAttempt ==
    /\ pc = "fetch"
    /\ \E o \in FetchOutcomes(<<Location.lat, Location.lon>>), deadline \in BOOLEAN :
        LET flog == Append(fetchLog, CallKind(o)) IN
        IF HasKey(o, "returned")
        THEN \* the attempt succeeds and the retry loop ends
             /\ deadline = FALSE
             /\ IF Truthy(o.returned)
                THEN /\ pc' = "get_state"
                     /\ weather_data' = o.returned
                     /\ fetchLog' = flog
                     /\ UNCHANGED <<i, attempt, total_observations,
                                    response_per_location, failed_locations,
                                    result, error, outcomes, sendLog>>
                ELSE EndLocation("no_data", total_observations,
                                 response_per_location, failed_locations,
                                 flog, sendLog)
        ELSE LET e == o.raised
                 failed == IF IsHTTPError(e) /\ FinalAttempt(attempt)
                           THEN Append(failed_locations, FailedEntry(Location.name, e))
                           ELSE failed_locations
             IN  IF Retryable(e) /\ ~StopRetrying(attempt, deadline)
                 THEN /\ attempt' = attempt + 1
                      /\ failed_locations' = failed
                      /\ fetchLog' = flog
                      /\ UNCHANGED <<pc, i, weather_data, total_observations,
                                     response_per_location, result, error, outcomes,
                                     sendLog>>
                 ELSE /\ (deadline => Retryable(e) /\ attempt < Attempts)
                      /\ IF FetchErrorHandled(e)
                         THEN EndLocation(IF Len(flog) >= Attempts THEN "fetch_failed"
                                          ELSE "fetch_stopped",
                                          total_observations, response_per_location,
                                          failed, flog, sendLog)
                         ELSE Abort(e, total_observations, response_per_location,
                                    failed, flog, sendLog)
    /\ UNCHANGED <<configurations, locations, store, runNo, stateReads, stateWrites,
                   hadPrior, delivered>>
    /\ UNCHANGED <<transformVars, idCalls, authCalls, clientCalls, configVars, overlapVars>>

\* Variant of GetState: the state is written as soon as the reading is accepted,
\* before anything has been sent.
GetState_WritesEarly ==
    /\ pc = "get_state"
    /\ stateReads' = stateReads + 1
    /\ LET current_state == store[StateKey] IN
       IF ~HasKey(weather_data, "dt")
       THEN /\ Abort(KeyError, total_observations, response_per_location,
                     failed_locations, fetchLog, sendLog)
            /\ store' = store
       ELSE IF ShouldSend(current_state, RecordedAt)
            THEN IF HasKey(Observation, "raised")
                 THEN /\ Abort(Observation.raised, total_observations,
                               response_per_location,
                               failed_locations, fetchLog, sendLog)
                      /\ store' = store
                 ELSE /\ pc' = "send"
                      /\ attempt' = 1
                      /\ store' = [store EXCEPT
                                     ![StateKey] = NewState(RecordedAt, Location.name)]
                      /\ UNCHANGED <<i, weather_data, total_observations,
                                     response_per_location, failed_locations,
                                     result, error, outcomes, fetchLog, sendLog>>
            ELSE /\ EndLocation("skipped", total_observations,
                                AppendEntry(response_per_location,
                                            SkippedEntry(Location.name)),
                                failed_locations, fetchLog, sendLog)
                 /\ store' = store
    /\ UNCHANGED <<configurations, locations, runNo,
                   stateWrites, hadPrior, delivered>>
    /\ UNCHANGED <<transformVars, idCalls, authCalls, clientCalls, configVars, overlapVars>>

\* get_state, the staleness test and the transform (lines 263-295, 353-357).
GetState ==
    /\ pc = "get_state"
    /\ stateReads' = stateReads + 1
    /\ LET current_state == store[StateKey] IN
       IF ~HasKey(weather_data, "dt")
       THEN Abort(KeyError, total_observations, response_per_location,
                  failed_locations, fetchLog, sendLog)
       ELSE IF ShouldSend(current_state, RecordedAt)
            THEN IF HasKey(Observation, "raised")
                 THEN Abort(Observation.raised, total_observations,
                            response_per_location,
                            failed_locations, fetchLog, sendLog)
                 ELSE /\ pc' = "send"
                      /\ attempt' = 1
                      /\ UNCHANGED <<i, weather_data, total_observations,
                                     response_per_location, failed_locations,
                                     result, error, outcomes, fetchLog, sendLog>>
            ELSE EndLocation("skipped", total_observations,
                             AppendEntry(response_per_location, SkippedEntry(Location.name)),
                             failed_locations, fetchLog, sendLog)
    /\ UNCHANGED <<configurations, locations, store, runNo,
                   stateWrites, hadPrior, delivered>>
    /\ UNCHANGED <<transformVars, idCalls, authCalls, clientCalls, configVars, overlapVars>>

\* What gundi_tools.send_observations_to_gundi can do: return a response, or raise.
SendOutcomes ==
    {[returned |-> [status |-> "success"]]}
    \cup {[raised |-> e] : e \in {HTTPError, ValueError}}

\* One attempt of the send retry loop (lines 297-330).
Send ==
    /\ pc = "send"
    /\ \E o \in SendOutcomes, deadline \in BOOLEAN :
        LET observation == Observation.value
            slog == Append(sendLog, [observations |-> <<observation>>,
                                     integration_id |-> ThisIntegration,
                                     outcome |-> CallKind(o)])
        IN
        IF HasKey(o, "returned")
        THEN /\ deadline = FALSE
             /\ total_observations' = total_observations + 1
             /\ pc' = "set_state"
             /\ sendLog' = slog
             /\ delivered' = [delivered EXCEPT
                                ![SourceId] = Max(@, observation.recorded_at.instant)]
             /\ UNCHANGED <<i, attempt, weather_data, response_per_location,
                            failed_locations, result, error, outcomes, fetchLog>>
        ELSE LET e == o.raised
                 details == IF IsHTTPError(e) /\ FinalAttempt(attempt)
                            THEN AppendEntry(response_per_location,
                                             SendErrorEntry(Location.name, e))
                            ELSE response_per_location
             IN  /\ delivered' = delivered
                 /\ IF Retryable(e) /\ ~StopRetrying(attempt, deadline)
                    THEN /\ attempt' = attempt + 1
                         /\ response_per_location' = details
                         /\ sendLog' = slog
                         /\ UNCHANGED <<pc, i, weather_data, total_observations,
                                        failed_locations, result, error, outcomes,
                                        fetchLog>>
                    ELSE /\ (deadline => Retryable(e) /\ attempt < Attempts)
                         /\ IF SendErrorHandled(e)
                            THEN EndLocation("send_failed", total_observations,
                                             details, failed_locations, fetchLog, slog)
                            ELSE Abort(e, total_observations, details,
                                       failed_locations, fetchLog, slog)
    /\ UNCHANGED <<configurations, locations, store, runNo,
                   stateReads, stateWrites, hadPrior>>
    /\ UNCHANGED <<transformVars, idCalls, authCalls, clientCalls, configVars, overlapVars>>

\* The else branch of the send attempt after the send returned: set_state and
\* the details entry (lines 332-352).
SetState ==
    /\ pc = "set_state"
    /\ store' = [store EXCEPT ![StateKey] = NewState(RecordedAt, Location.name)]
    /\ stateWrites' = stateWrites + 1
    /\ EndLocation("recorded", total_observations,
                   AppendEntry(response_per_location,
                               RecordedEntry(Location.name, SourceId)),
                   failed_locations, fetchLog, sendLog)
    /\ UNCHANGED <<configurations, locations, runNo,
                   stateReads, hadPrior, delivered>>
    /\ UNCHANGED <<transformVars, idCalls, authCalls, clientCalls, configVars, overlapVars>>

Next == StartRun \/ FetchAttempt \/ GetState \/ Send \/ SetState

Spec == Init /\ [][Next]_vars

\* ------------------------------------------------ a run that can be cancelled
\* asyncio.CancelledError derives from BaseException.
CancelledError == [type |-> "CancelledError"]

\* The task of the run is cancelled (timeout or shutdown) while it waits in one
\* of its awaits: fetch, get_state, send or set_state.  CancelledError is
\* raised there; it is no httpx.HTTPError, so no retry loop and no inner except
\* handles it, and the outer `except Exception` does not catch a BaseException:
\* it leaves the handler.
Cancel ==
    /\ pc \in {"fetch", "get_state", "send", "set_state"}
    /\ Abort(CancelledError, total_observations, response_per_location,
             failed_locations, fetchLog, sendLog)
    /\ UNCHANGED <<configurations, locations, store, runNo, stateReads, stateWrites,
                   hadPrior, delivered>>
    /\ UNCHANGED <<transformVars, idCalls, authCalls, clientCalls, configVars, overlapVars>>

CancelNext == Next \/ Cancel

CancelSpec == Init /\ [][CancelNext]_vars

\* ------------------------------------------- the transforms, called directly
\* A payload, a location and a host timezone are given; either transform
\* function is applied to them.
TransformInit ==
    /\ payload \in Payloads
    /\ station \in Stations
    /\ hostOffset \in HostOffsets
    /\ called = "none"
    /\ returned = None
    /\ NoPullRun
    /\ idCalls = <<>>
    /\ NoOtherCall

\* observation = transform_weather_to_observation(weather_data, location_name, source_id)
CallTransformWeatherToObservation ==
    /\ called' = "transform_weather_to_observation"
    /\ returned' = transform_weather_to_observation(
                        payload, station.name,
                        generate_source_id(station.lat, station.lon))
    /\ UNCHANGED <<payload, station, hostOffset, pullVars, idCalls, authCalls,
                   clientCalls, configVars, overlapVars>>

\* observation = transform_openweather_data(data, location_name, lat, lon)
CallTransformOpenweatherData ==
    /\ called' = "transform_openweather_data"
    /\ returned' = transform_openweather_data(payload, station.name,
                                              station.lat, station.lon, hostOffset)
    /\ UNCHANGED <<payload, station, hostOffset, pullVars, idCalls, authCalls,
                   clientCalls, configVars, overlapVars>>

TransformNext == CallTransformWeatherToObservation \/ CallTransformOpenweatherData

TransformSpec == TransformInit /\ [][TransformNext]_vars

\* ------------------------------------------ generate_source_id, called directly
\* Coordinates the function is called with (floats with no fractional part).
CoordValues == (0 - MaxCoord)..MaxCoord

SourceIdInit ==
    /\ idCalls = <<>>
    /\ NoTransformCall
    /\ NoPullRun
    /\ NoOtherCall

\* source_id = generate_source_id(lat, lon), called twice
CallGenerateSourceId ==
    /\ Len(idCalls) < 2
    /\ \E lat \in CoordValues, lon \in CoordValues :
          idCalls' = Append(idCalls, [lat |-> lat, lon |-> lon,
                                      id |-> generate_source_id(lat, lon)])
    /\ UNCHANGED <<pullVars, transformVars, authCalls, clientCalls, configVars,
                   overlapVars>>

SourceIdNext == CallGenerateSourceId

SourceIdSpec == SourceIdInit /\ [][SourceIdNext]_vars

\* ------------------------------------------------ action_auth, called directly
HTTPStatusError(status) == [type |-> "HTTPStatusError", status |-> status]

\* What client.validate_api_key can do: report the key valid or invalid, or
\* raise a status error, a transport error or something else.
ValidateOutcomes ==
    {[returned |-> b] : b \in BOOLEAN}
    \cup {[raised |-> HTTPStatusError(st)] : st \in {400, 401, 403, 404, 429, 500, 503}}
    \cup {[raised |-> e] : e \in {HTTPError, ValueError}}

\* Variant: every HTTP status error counts as an invalid key.
action_auth_AnyStatusIsInvalid(o) ==
    IF HasKey(o, "returned")
    THEN [value |-> [valid_credentials |-> o.returned]]
    ELSE IF o.raised.type = "HTTPStatusError"
         THEN [value |-> [valid_credentials |-> FALSE]]
         ELSE [raised |-> o.raised]

\* action_auth, given what validate_api_key did: the result returned, or the
\* exception raised.
action_auth(o) ==
    IF HasKey(o, "returned")
    THEN [value |-> [valid_credentials |-> o.returned]]
    ELSE IF o.raised.type = "HTTPStatusError"
         THEN IF o.raised.status = 401
              THEN [value |-> [valid_credentials |-> FALSE]]
              ELSE [raised |-> o.raised]
         ELSE [raised |-> o.raised]

AuthInit ==
    /\ authCalls = <<>>
    /\ NoPullRun
    /\ NoTransformCall
    /\ idCalls = <<>>
    /\ NoClientCall /\ NoValidation /\ NoOverlap

\* result = await action_auth(integration, action_config), called twice
CallActionAuth ==
    /\ Len(authCalls) < 2
    /\ \E o \in ValidateOutcomes :
          authCalls' = Append(authCalls, [validate |-> o, auth |-> action_auth(o)])
    /\ UNCHANGED <<pullVars, transformVars, idCalls, clientCalls, configVars,
                   overlapVars>>

AuthNext == CallActionAuth

AuthSpec == AuthInit /\ [][AuthNext]_vars

\* ------------------------------------- two runs of the same integration overlap
\* Two invocations of action_pull_observations for the same integration are in
\* progress at once, each at its own await, over one configured location.  The
\* handler takes no lock: the scheduler interleaves the runs at their awaits.
OverlapLocation == [name |-> Names[1], lat |-> 10, lon |-> 30]

OverlapInit ==
    /\ runs = [r \in 1..2 |-> [pc |-> "fetch", weather_data |-> None]]
    /\ sourceState = None
    /\ deliveries = <<>>
    /\ NoPullRun
    /\ NoTransformCall
    /\ idCalls = <<>>
    /\ NoAuthCall /\ NoClientCall /\ NoValidation

\* Run r awaits the fetch (lines 217-263): a reading, or no data for the location.
OverlapFetch(r) ==
    /\ runs[r].pc = "fetch"
    /\ \/ \E t \in Times :
            runs' = [runs EXCEPT ![r] =
                       [pc |-> "get_state",
                        weather_data |-> [dt |-> t, coord |-> CoordOf(<<10, 30>>)]]]
       \/ runs' = [runs EXCEPT ![r].pc = "done"]
    /\ UNCHANGED <<sourceState, deliveries>>
    /\ UNCHANGED <<pullVars, transformVars, idCalls, authCalls, clientCalls, configVars>>

\* Run r awaits get_state and compares (lines 265-289).
OverlapGetState(r) ==
    /\ runs[r].pc = "get_state"
    /\ runs' = [runs EXCEPT ![r].pc =
                 IF ShouldSend(sourceState, fromtimestamp(runs[r].weather_data.dt))
                 THEN "send" ELSE "done"]
    /\ UNCHANGED <<sourceState, deliveries>>
    /\ UNCHANGED <<pullVars, transformVars, idCalls, authCalls, clientCalls, configVars>>

\* Run r awaits send_observations_to_gundi (lines 297-330): delivered, or the
\* send fails for good and the run ends.
OverlapSend(r) ==
    /\ runs[r].pc = "send"
    /\ \/ /\ deliveries' = Append(deliveries,
                  [run |-> r,
                   recorded_at |-> fromtimestamp(runs[r].weather_data.dt).instant])
          /\ runs' = [runs EXCEPT ![r].pc = "set_state"]
       \/ /\ deliveries' = deliveries
          /\ runs' = [runs EXCEPT ![r].pc = "done"]
    /\ UNCHANGED sourceState
    /\ UNCHANGED <<pullVars, transformVars, idCalls, authCalls, clientCalls, configVars>>

\* Run r awaits set_state (lines 332-342).
OverlapSetState(r) ==
    /\ runs[r].pc = "set_state"
    /\ sourceState' = NewState(fromtimestamp(runs[r].weather_data.dt),
                               OverlapLocation.name)
    /\ runs' = [runs EXCEPT ![r].pc = "done"]
    /\ UNCHANGED deliveries
    /\ UNCHANGED <<pullVars, transformVars, idCalls, authCalls, clientCalls, configVars>>

OverlapNext ==
    \E r \in 1..2 :
        OverlapFetch(r) \/ OverlapGetState(r) \/ OverlapSend(r) \/ OverlapSetState(r)

OverlapSpec == OverlapInit /\ [][OverlapNext]_vars

\* -------------------------------------------- the weather clients, called directly
\* The units systems a pull configuration can select.
UnitsSystems == {"metric", "imperial", "standard"}

\* What the GET can do: answer with a status and a body (None: a body that is
\* not JSON), or fail with a transport error.
Responses ==
    {[status |-> 200, body |-> b] : b \in {FullPayload, SparsePayload, EmptyDict, None}}
    \cup {[status |-> st, body |-> EmptyDict] : st \in {401, 404, 500}}
    \cup {[raised |-> RequestError]}

\* session.get, response.raise_for_status() and response.json(): the parsed
\* body, or the exception.
GetJson(net) ==
    IF HasKey(net, "raised") THEN [raised |-> net.raised]
    ELSE IF net.status >= 400 THEN [raised |-> HTTPStatusError(net.status)]
    ELSE IF net.body = None THEN [raised |-> ValueError]
    ELSE [value |-> net.body]

\* params of both clients: the units are the literal "metric".
RequestParams(lat, lon, api_key) ==
    [lat |-> lat, lon |-> lon, appid |-> api_key, units |-> "metric"]

\* Variant: only the status error is caught.
ClientErrorHandled_StatusOnly(e) == e.type = "HTTPStatusError"

\* The except clauses of OpenWeatherClient.get_weather_data.
ClientErrorHandled(e) == e.type \in {"HTTPStatusError", "RequestError"}

\* OpenWeatherClient(api_key).get_weather_data(lat, lon): the requests it
\* sends and what it returns or raises.
get_weather_data(api_key, lat, lon, net) ==
    LET r == GetJson(net) IN
    [requests |-> <<RequestParams(lat, lon, api_key)>>,
     result   |-> IF HasKey(r, "raised") /\ ClientErrorHandled(r.raised)
                  THEN [value |-> None]
                  ELSE r]

\* OpenWeatherResponse.parse_obj: the fields the response models require.
ValidResponse(body) ==
    /\ {"coord", "weather", "base", "main", "dt", "timezone", "id", "name", "cod"}
          \subseteq DOMAIN body
    /\ {"temp", "feels_like", "temp_min", "temp_max", "pressure", "humidity"}
          \subseteq DOMAIN body.main
    /\ \A n \in 1..Len(body.weather) :
          {"id", "main", "description", "icon"} \subseteq DOMAIN body.weather[n]
    /\ HasKey(body, "wind") => HasKey(body.wind, "speed")
    /\ HasKey(body, "clouds") => HasKey(body.clouds, "all")

\* client.get_weather_data_for_location: nothing is caught.
get_weather_data_for_location(lat, lon, api_key, net) ==
    LET r == GetJson(net) IN
    [requests |-> <<RequestParams(lat, lon, api_key)>>,
     result   |-> IF HasKey(r, "raised") THEN r
                  ELSE IF ValidResponse(r.value) THEN r
                  ELSE [raised |-> ValidationError]]

ClientInit ==
    /\ clientCalls = <<>>
    /\ NoPullRun
    /\ NoTransformCall
    /\ idCalls = <<>>
    /\ NoAuthCall /\ NoValidation /\ NoOverlap

\* data = await OpenWeatherClient(api_key).get_weather_data(lat, lon), for a
\* location of a pull configuration that selects `units`
CallGetWeatherData ==
    /\ Len(clientCalls) < 2
    /\ \E c \in Coords, units \in UnitsSystems, net \in Responses :
          clientCalls' = Append(clientCalls,
              [fn |-> "get_weather_data", lat |-> c[1], lon |-> c[2],
               api_key |-> "secret", units |-> units, net |-> net]
              @@ get_weather_data("secret", c[1], c[2], net))
    /\ UNCHANGED <<pullVars, transformVars, idCalls, authCalls, configVars,
                   overlapVars>>

\* weather_response = await get_weather_data_for_location(lat=, lon=, api_key=)
CallGetWeatherDataForLocation ==
    /\ Len(clientCalls) < 2
    /\ \E c \in Coords, units \in UnitsSystems, net \in Responses :
          clientCalls' = Append(clientCalls,
              [fn |-> "get_weather_data_for_location", lat |-> c[1], lon |-> c[2],
               api_key |-> "secret", units |-> units, net |-> net]
              @@ get_weather_data_for_location(c[1], c[2], "secret", net))
    /\ UNCHANGED <<pullVars, transformVars, idCalls, authCalls, configVars,
                   overlapVars>>

ClientNext == CallGetWeatherData \/ CallGetWeatherDataForLocation

ClientSpec == ClientInit /\ [][ClientNext]_vars

\* ------------------------------------ the multi-location client, called directly
\* Variant: a 401 is not caught.
LocationErrorHandled_Not401(e) == ~(e.type = "HTTPStatusError" /\ e.status = 401)

\* The except clauses of get_weather_data_for_locations: HTTPStatusError,
\* HTTPError, ValidationError and Exception; only a BaseException gets through.
LocationErrorHandled(e) ==
    \/ e.type = "HTTPStatusError"
    \/ IsHTTPError(e)
    \/ e.type = "ValidationError"
    \/ e.type # "CancelledError"

\* The loop of get_weather_data_for_locations from location k on; nets[k] is
\* what the endpoint does for the request of location k.
RECURSIVE LocationsLoop(_, _, _, _, _, _)
LocationsLoop(locs, api_key, nets, k, requests, wdata) ==
    IF k > Len(locs)
    THEN [requests |-> requests, result |-> [value |-> wdata]]
    ELSE LET location == locs[k]
             call == get_weather_data_for_location(location.lat, location.lon,
                                                   api_key, nets[k])
             sent == requests \o call.requests
         IN  IF HasKey(call.result, "value")
             THEN LET source_id == generate_source_id(location.lat, location.lon)
                      entry == [location_config |-> location,
                                weather_response |-> call.result.value]
                  IN  LocationsLoop(locs, api_key, nets, k + 1, sent,
                                    (source_id :> entry) @@ wdata)
             ELSE IF LocationErrorHandled(call.result.raised)
                  THEN LocationsLoop(locs, api_key, nets, k + 1, sent, wdata)
                  ELSE [requests |-> sent, result |-> [raised |-> call.result.raised]]

\* client.get_weather_data_for_locations(locations=, api_key=, integration_id=)
get_weather_data_for_locations(locs, api_key, nets) ==
    LocationsLoop(locs, api_key, nets, 1, <<>>, EmptyDict)

LocationsInit ==
    /\ clientCalls = <<>>
    /\ NoPullRun
    /\ NoTransformCall
    /\ idCalls = <<>>
    /\ NoAuthCall /\ NoValidation /\ NoOverlap

\* weather_data = await get_weather_data_for_locations(...), for up to MaxLocs
\* locations and any answer of the endpoint to each request
CallGetWeatherDataForLocations ==
    /\ clientCalls = <<>>
    /\ \E cs \in LocationLists :
          \E nets \in [1..Len(cs) -> Responses] :
             clientCalls' = <<[fn |-> "get_weather_data_for_locations",
                               locations |-> MkLocations(cs),
                               api_key |-> "secret", nets |-> nets]
                              @@ get_weather_data_for_locations(MkLocations(cs),
                                                                "secret", nets)>>
    /\ UNCHANGED <<pullVars, transformVars, idCalls, authCalls, configVars,
                   overlapVars>>

LocationsNext == CallGetWeatherDataForLocations

LocationsSpec == LocationsInit /\ [][LocationsNext]_vars

\* ------------------------------------------ validation of the pull configuration
\* Raw configuration data: up to MaxLocs locations with coordinates inside, on
\* and outside the limits, or no `locations` key at all; `units` one of the
\* three systems, another string, or omitted.
ConfigInputs ==
    LET lats == {0 - 91, 0 - 90, 0, 90, 91}
        lons == {0 - 181, 0 - 180, 0, 180, 181}
        lists == UNION {[1..n -> lats \X lons] : n \in 0..MaxLocs}
        locs == {[locations |-> [k \in 1..Len(cs) |->
                                   [name |-> Names[k], lat |-> cs[k][1], lon |-> cs[k][2]]]]
                 : cs \in lists} \cup {EmptyDict}
        units == {[units |-> u] : u \in UnitsSystems \cup {"kelvin"}} \cup {EmptyDict}
    IN  {l @@ u : l \in locs, u \in units}

\* The constraints of the Location model: ge/le of lat and lon.
ValidLocation(loc) ==
    /\ loc.lat >= 0 - 90 /\ loc.lat <= 90
    /\ loc.lon >= 0 - 180 /\ loc.lon <= 180

\* Variant: any string passes as units.
validate_units_Any(v) == TRUE

\* PullObservationsConfig.validate_units: TRUE when the validator returns v.
validate_units(v) == v \in {"metric", "imperial", "standard"}

\* PullObservationsConfig.parse_obj(data): the validated configuration, or
\* pydantic.ValidationError.  `locations` is required, with min_items = 1; the
\* validator of `units` runs on a given value, the default is "metric".
parse_obj(data) ==
    IF \/ ~HasKey(data, "locations")
       \/ Len(data.locations) < 1
       \/ \E k \in 1..Len(data.locations) : ~ValidLocation(data.locations[k])
       \/ HasKey(data, "units") /\ ~validate_units(data.units)
    THEN [raised |-> ValidationError]
    ELSE [value |-> [locations |-> data.locations,
                     units |-> IF HasKey(data, "units") THEN data.units ELSE "metric"]]

ConfigInit ==
    /\ config_data \in ConfigInputs
    /\ validated = None
    /\ NoPullRun
    /\ NoTransformCall
    /\ idCalls = <<>>
    /\ NoAuthCall /\ NoClientCall /\ NoOverlap

\* The raw data is parsed into a PullObservationsConfig.
CallParseObj ==
    /\ validated = None
    /\ validated' = parse_obj(config_data)
    /\ UNCHANGED config_data
    /\ UNCHANGED <<pullVars, transformVars, idCalls, authCalls, clientCalls, overlapVars>>

ConfigNext == CallParseObj

ConfigSpec == ConfigInit /\ [][ConfigNext]_vars

\* ================================================================= claims
N == Len(locations)
Running == pc \in {"fetch", "get_state", "send", "set_state"}
Range(seq) == {seq[k] : k \in 1..Len(seq)}
KeyOf(loc) == <<ThisIntegration, PullAction, generate_source_id(loc.lat, loc.lon)>>
DistinctCoordinates ==
    \A a, b \in 1..N : a # b => KeyOf(locations[a]) # KeyOf(locations[b])
\* The timestamp held by a state record.
StoredInstant(st) == fromisoformat(st.latest_timestamp).instant
OkSends(log) == Cardinality({k \in 1..Len(log) : log[k].outcome = "ok"})

\* C1: a location whose fetch fails with httpx.HTTPError on each of its 3
\* attempts does not end the run (no httpx error leaves the fetch phase), and in
\* a returned run over N locations with distinct coordinates and no prior
\* state, in which exactly one location k failed that way and every other
\* location was fetched, observations_extracted = N-1 and failed_locations has
\* exactly one entry, naming k.
C1_FetchFailureIsolated ==
    /\ (pc = "raised" /\ IsHTTPError(error)) => sendLog # <<>>
    /\ (pc = "returned" /\ ~hadPrior /\ DistinctCoordinates) =>
         \A k \in 1..N :
            (/\ outcomes[k] = "fetch_failed"
             /\ \A j \in (1..N) \ {k} : outcomes[j] \in {"recorded", "skipped"})
            => /\ result.observations_extracted = N - 1
               /\ HasKey(result, "failed_locations")
               /\ Len(result.failed_locations) = 1
               /\ result.failed_locations[1].location = locations[k].name

C1_Witness ==
    /\ pc = "returned"
    /\ N = 2
    /\ ~hadPrior
    /\ DistinctCoordinates
    /\ outcomes = <<"fetch_failed", "recorded">>
    /\ result.observations_extracted = 1

\* C2 (as claimed): when the send for a location fails with httpx.HTTPError on
\* all 3 attempts the run does not fail: it goes on, and the result it returns
\* holds the error entry of that location.
C2_SendFailureRecovered ==
    (/\ Len(sendLog) >= Attempts
     /\ \A k \in 1..Len(sendLog) : sendLog[k].outcome = "http_error")
    => /\ pc # "raised"
       /\ pc = "returned" =>
            SendErrorEntry(Location.name, HTTPError) \in Range(result.details)

\* C3: when the state of the source holds latest_timestamp = T and the fetched
\* reading has recorded_at <= T, the location ends without a send, without a
\* state write and without counting, and details gets 'skipped - no new data'.
C3_StaleReadingSuppressed ==
    [][ (/\ pc = "get_state"
         /\ HasKey(weather_data, "dt")
         /\ store[StateKey] # None
         /\ HasKey(store[StateKey], "latest_timestamp")
         /\ RecordedAt.instant <= StoredInstant(store[StateKey]))
        => /\ pc' \in {"fetch", "returned"}
           /\ sendLog = <<>> /\ sendLog' = <<>>
           /\ store' = store
           /\ stateWrites' = stateWrites
           /\ total_observations' = total_observations
           /\ response_per_location' =
                 Append(response_per_location, SkippedEntry(Location.name))
      ]_vars

\* A second run over one location whose state holds instant 1 ended in
\* 'skipped': the reading had recorded_at = 1 = T.
C3_Witness ==
    /\ pc = "returned"
    /\ runNo = 2
    /\ N = 1
    /\ hadPrior
    /\ outcomes = <<"skipped">>
    /\ store[KeyOf(locations[1])] # None
    /\ StoredInstant(store[KeyOf(locations[1])]) = 1
    /\ result.observations_extracted = 0

C5_StateWrittenOnlyAfterSend ==
    [][ (store' # store \/ stateWrites' > stateWrites)
        => /\ pc = "set_state"
           /\ sendLog # <<>>
           /\ sendLog[Len(sendLog)].outcome = "ok"
           /\ sendLog[Len(sendLog)].observations[1].source = SourceId
           /\ stateWrites' = stateWrites + 1
           /\ \A k \in Keys \ {StateKey} : store'[k] = store[k]
      ]_vars

\* A state write that followed a send which succeeded on a retry.
C5_Witness ==
    /\ pc = "returned"
    /\ stateWrites = 1
    /\ outcomes = <<"recorded">>
    /\ Len(sendLog) = 2
    /\ sendLog[1].outcome = "http_error"
    /\ sendLog[2].outcome = "ok"
    /\ store[KeyOf(locations[1])] # None

C7_MissingAuthIsFatal ==
    ("auth" \notin configurations /\ runNo >= 1)
    => /\ pc = "raised"
       /\ error = ConfigurationNotFound
       /\ result = None
       /\ fetchLog = <<>>
       /\ sendLog = <<>>
       /\ outcomes = <<>>
       /\ stateReads = 0
       /\ stateWrites = 0
       /\ \A k \in Keys : store[k] = None

C7_Witness ==
    /\ "auth" \notin configurations
    /\ N = 2
    /\ runNo = 2
    /\ pc = "raised"
    /\ error = ConfigurationNotFound

C9_UnauthorizedNotRetried ==
    \A k \in 1..Len(fetchLog) : fetchLog[k] = "401" => k = Len(fetchLog)

\* The fetch (send) calls a run may still make, and a rank of the steps it
\* may still take.
FetchBudget ==
    IF ~Running THEN 0
    ELSE Attempts * (N - i) + (IF pc = "fetch" THEN Attempts - Len(fetchLog) ELSE 0)
SendBudget ==
    IF ~Running THEN 0
    ELSE Attempts * (N - i)
         + (IF pc \in {"fetch", "get_state"} THEN Attempts
            ELSE IF pc = "send" THEN Attempts - Len(sendLog) ELSE 0)
Rank ==
    IF ~Running THEN 0
    ELSE 8 * (N - i)
         + (IF pc = "fetch" THEN 5 + (Attempts - Len(fetchLog))
            ELSE IF pc = "get_state" THEN 5
            ELSE IF pc = "send" THEN 1 + (Attempts - Len(sendLog))
            ELSE 1)

\* C10: retries are bounded and stop at the first success: at most 3 fetch and
\* 3 send calls per location, none after a success.  The budgets start at 3N,
\* are never negative and every fetch (send) call lowers the fetch (send)
\* budget, so a run makes at most 3N fetches and 3N sends; Rank falls with
\* every step of a run and a run that has not ended can always take a step, so
\* the run ends (returns or raises).
C10_BoundedRetries ==
    /\ [](/\ Len(fetchLog) <= Attempts
          /\ Len(sendLog) <= Attempts
          /\ \A k \in 1..Len(fetchLog) : fetchLog[k] = "ok" => k = Len(fetchLog)
          /\ \A k \in 1..Len(sendLog) : sendLog[k].outcome = "ok" => k = Len(sendLog)
          /\ pc = "fetch" => "ok" \notin Range(fetchLog)
          /\ pc = "send" => OkSends(sendLog) = 0
          /\ FetchBudget >= 0
          /\ SendBudget >= 0
          /\ Running => ENABLED Next)
    /\ [][ /\ (pc \notin {"fetch", "get_state", "send", "set_state"} /\ pc' = "fetch")
              => (FetchBudget' = Attempts * N /\ SendBudget' = Attempts * N)
           /\ Running => /\ Rank' < Rank
                         /\ FetchBudget' <= FetchBudget
                         /\ SendBudget' <= SendBudget
           /\ pc = "fetch" => FetchBudget' < FetchBudget
           /\ pc = "send" => SendBudget' < SendBudget
         ]_vars

\* Three fetch calls and three send calls for one location, the third of each
\* succeeding.
C10_Witness ==
    /\ pc = "set_state"
    /\ Len(fetchLog) = 3
    /\ Len(sendLog) = 3
    /\ fetchLog[3] = "ok"
    /\ sendLog[3].outcome = "ok"

\* The position in action_config.locations of the location an entry names
\* (the k-th location is named Names[k]).
PositionOf(entry) == CHOOSE k \in 1..Len(Names) : Names[k] = entry.location

\* C11: the details list keeps the order of action_config.locations: of two
\* entries for different locations, the one for the earlier location comes
\* first, in the list under construction and in the returned result.
C11_DetailsKeepInputOrder ==
    /\ \A a, b \in 1..Len(response_per_location) :
          (a < b /\ response_per_location[a].location # response_per_location[b].location)
          => PositionOf(response_per_location[a]) < PositionOf(response_per_location[b])
    /\ pc = "returned" => result.details = response_per_location

\* A returned run whose details hold an entry for each of two locations.
C11_Witness ==
    /\ pc = "returned"
    /\ N = 2
    /\ Len(result.details) = 2
    /\ result.details[1].location = locations[1].name
    /\ result.details[2].location = locations[2].name

\* C13 (as claimed, for a fetched payload that lacks dt): the malformed
\* response counts as 'no observation' for its location and the run does not
\* end with an exception because of it.
C13_MalformedResponseIsolated ==
    (weather_data # None /\ ~HasKey(weather_data, "dt")) => pc # "raised"

\* --------------------------------------------- claims about the transforms
\* A transform was applied and produced an observation.
Produced == called # "none" /\ HasKey(returned, "value") /\ returned.value # None
Additional == returned.value.additional
\* Whether a value of a mapping is itself a mapping (not a scalar, None or a
\* timestamp text).
IsMapping(x) == DOMAIN x \cap {"val", "none", "iso8601"} = {}
\* The values held by the additional mapping, directly or inside an entry that
\* is a mapping.
Carried ==
    {Additional[k] : k \in DOMAIN Additional}
    \cup UNION {{Additional[k][f] : f \in DOMAIN Additional[k]} :
                  k \in {j \in DOMAIN Additional : IsMapping(Additional[j])}}
\* The keys transform_openweather_data promotes to the top of the observation.
PromotedKeys ==
    {"temperature", "humidity", "pressure", "wind_speed", "wind_direction",
     "weather_condition"}
Promoted == {returned.value[k] : k \in DOMAIN returned.value \cap PromotedKeys}
\* The scalar fields a payload has, other than dt, coord and the sunrise and
\* sunset timestamps.
UpstreamFields(d) ==
    {d[k] : k \in DOMAIN d \cap {"base", "visibility", "timezone", "id", "name", "cod"}}
    \cup UNION {{d[k][f] : f \in DOMAIN d[k]} :
                  k \in DOMAIN d \cap {"main", "wind", "rain", "snow", "clouds"}}
    \cup (IF HasKey(d, "sys")
          THEN {d.sys[f] : f \in DOMAIN d.sys \ {"sunrise", "sunset"}}
          ELSE {})
    \cup (IF HasKey(d, "weather")
          THEN UNION {{d.weather[n][f] : f \in DOMAIN d.weather[n]} :
                        n \in 1..Len(d.weather)}
          ELSE {})
\* The instant a recorded_at, sunrise or sunset of the observation denotes: a
\* datetime (transform_weather_to_observation's recorded_at) or ISO 8601 text.
InstantOf(t) == IF HasKey(t, "instant") THEN t.instant ELSE fromisoformat(t).instant

\* C12 (as claimed): for a non-empty payload without dt either transform
\* returns None ('no observation') and does not raise.
C12_TransformFailsClosed ==
    (called # "none" /\ payload # EmptyDict /\ ~HasKey(payload, "dt"))
    => returned = [value |-> None]

\* C14: transform_openweather_data returns None for the empty payload, whatever
\* the location name, the coordinates and the host timezone.
C14_EmptyPayloadGivesNone ==
    (called = "transform_openweather_data" /\ payload = EmptyDict)
    => returned = [value |-> None]

C14_Witness ==
    /\ called = "transform_openweather_data"
    /\ payload = EmptyDict
    /\ station = [name |-> Names[2], lat |-> 20, lon |-> 30]
    /\ hostOffset = 3600
    /\ returned = [value |-> None]

\* C15 (as claimed): no value of the additional mapping of a produced
\* observation is None.
C15_NoNullPlaceholder ==
    Produced => \A k \in DOMAIN Additional : Additional[k] # None

\* C16 (as claimed): every scalar field the payload has is either promoted to
\* the top of the produced observation or carried in its additional mapping.
C16_NoFieldLost ==
    Produced => UpstreamFields(payload) \subseteq (Promoted \cup Carried)

\* C17 (as claimed): what a transform returns is determined by the payload, the
\* location name and the source id (coordinates) alone: it is what the
\* function returns for these inputs on a host in any timezone.
C17_ResultDependsOnInputsOnly ==
    /\ called = "transform_weather_to_observation"
       => returned = transform_weather_to_observation(
                         payload, station.name,
                         generate_source_id(station.lat, station.lon))
    /\ called = "transform_openweather_data"
       => \A offset \in HostOffsets :
             returned = transform_openweather_data(payload, station.name,
                                                   station.lat, station.lon, offset)

\* C18 (as claimed): recorded_at of a produced observation denotes the instant
\* dt of the payload, and sunrise and sunset, when the payload has them, the
\* instants sys.sunrise and sys.sunset, whatever the host's timezone.
C18_TimestampsAreUTCInstants ==
    Produced =>
        /\ InstantOf(returned.value.recorded_at) = payload.dt
        /\ \A k \in {"sunrise", "sunset"} :
              (HasKey(payload, "sys") /\ HasKey(payload.sys, k))
              => /\ HasKey(Additional, k)
                 /\ InstantOf(Additional[k]) = payload.sys[k]

StartsWith(text, prefix) == Len(text) >= 1 /\ text[1] = [literal |-> prefix]

\* C20 (as claimed): every generated source id starts with 'openweather_'.
C20_SourceIdHasPrefix ==
    \A k \in 1..Len(idCalls) : StartsWith(idCalls[k].id, "openweather_")

\* ------------------------------------------------- claims about action_auth
\* C21: action_auth returns {valid_credentials: true} when the key validates,
\* {valid_credentials: false} when validation reports an invalid key or fails
\* with HTTP 401, and raises the error, returning nothing, for any other HTTP
\* status error and for a transport error.
C21_AuthResults ==
    \A k \in 1..Len(authCalls) :
        LET o == authCalls[k].validate
            r == authCalls[k].auth
        IN  /\ o = [returned |-> TRUE] => r = [value |-> [valid_credentials |-> TRUE]]
            /\ (o = [returned |-> FALSE] \/ o = [raised |-> HTTPStatus401])
               => r = [value |-> [valid_credentials |-> FALSE]]
            /\ (HasKey(o, "raised") /\ IsHTTPError(o.raised) /\ o.raised # HTTPStatus401)
               => r = [raised |-> o.raised]

\* One call met a 401, the next a 500.
C21_Witness ==
    /\ Len(authCalls) = 2
    /\ authCalls[1].validate = [raised |-> HTTPStatus401]
    /\ authCalls[1].auth = [value |-> [valid_credentials |-> FALSE]]
    /\ authCalls[2].validate = [raised |-> HTTPStatusError(500)]
    /\ authCalls[2].auth = [raised |-> HTTPStatusError(500)]

\* --------------------------------------------- claims about the weather clients
\* C22: a call of OpenWeatherClient.get_weather_data sends exactly one
\* request; for a status error and for a request error it raises nothing and
\* returns None; for a JSON answer with a success status it returns the body.
C22_GetWeatherDataNeverRaises ==
    \A k \in 1..Len(clientCalls) :
        LET call == clientCalls[k] IN
        call.fn = "get_weather_data"
        => /\ Len(call.requests) = 1
           /\ (HasKey(call.net, "raised") \/ call.net.status >= 400)
              => call.result = [value |-> None]
           /\ (HasKey(call.net, "status") /\ call.net.status = 200
                /\ call.net.body # None)
              => call.result = [value |-> call.net.body]

\* One call met a transport error, the next a 404.
C22_Witness ==
    /\ Len(clientCalls) = 2
    /\ clientCalls[1].fn = "get_weather_data"
    /\ clientCalls[1].net = [raised |-> RequestError]
    /\ clientCalls[1].result = [value |-> None]
    /\ clientCalls[2].fn = "get_weather_data"
    /\ clientCalls[2].net = [status |-> 404, body |-> EmptyDict]
    /\ clientCalls[2].result = [value |-> None]

\* C26 (as claimed): every request carries the location's latitude and
\* longitude, the credential, the units system the pull configuration
\* selects, and a language code.
C26_RequestCarriesUnitsAndLanguage ==
    \A k \in 1..Len(clientCalls) :
        \A n \in 1..Len(clientCalls[k].requests) :
            LET call == clientCalls[k]
                params == call.requests[n]
            IN  /\ params.lat = call.lat
                /\ params.lon = call.lon
                /\ params.appid = call.api_key
                /\ params.units = call.units
                /\ HasKey(params, "lang")

\* ------------------------------------------------------- claims about a pull run
\* C23 (as claimed): a run cancelled after it has processed some locations
\* skips the remaining ones and returns the aggregate collected so far.
C23_CancelledRunReturnsPartial ==
    (error = CancelledError /\ i > 1)
    => /\ pc = "returned"
       /\ result = BuildResult(total_observations, response_per_location,
                               failed_locations)

\* C24 (as claimed): when two runs of the same integration overlap, no reading
\* is delivered by both of them, and once both are over the stored
\* latest_timestamp is not older than any reading delivered and recorded.
C24_OverlappingRunsAreAtomic ==
    /\ \A j, k \in 1..Len(deliveries) :
          deliveries[j].run # deliveries[k].run
          => deliveries[j].recorded_at # deliveries[k].recorded_at
    /\ (\A r \in 1..2 : runs[r].pc = "done")
       => \A k \in 1..Len(deliveries) :
             /\ sourceState # None
             /\ deliveries[k].recorded_at <= StoredInstant(sourceState)

\* C25: the state is read and written under the key (this integration,
\* 'pull_observations', source id of the location's coordinates): whether the
\* reading is sent depends on the record under that key, the write lands under
\* that key, and the record of every other source, action and integration is
\* left as it was.
C25_StateIsolatedPerKey ==
    [][ /\ \A k \in Keys :
            (k[1] # ThisIntegration \/ k[2] # "pull_observations"
             \/ (Running => k[3] # generate_source_id(Location.lat, Location.lon)))
            => store'[k] = store[k]
        /\ (pc = "get_state" /\ HasKey(weather_data, "dt") /\ HasKey(weather_data, "coord"))
           => (pc' = "send") = ShouldSend(store[KeyOf(Location)], RecordedAt)
        /\ pc = "set_state"
           => store'[KeyOf(Location)] = NewState(RecordedAt, Location.name)
      ]_vars

\* Two locations with different coordinates: the first was recorded in the
\* first run and skipped in the second, the second was recorded in the second
\* run; each has its own record and no other key holds anything.
C25_Witness ==
    /\ pc = "returned"
    /\ runNo = 2
    /\ N = 2
    /\ DistinctCoordinates
    /\ outcomes = <<"skipped", "recorded">>
    /\ StoredInstant(store[KeyOf(locations[1])]) = 2
    /\ StoredInstant(store[KeyOf(locations[2])]) = 1
    /\ \A k \in Keys \ {KeyOf(locations[1]), KeyOf(locations[2])} : store[k] = None

\* C27 (as claimed): in a run that returns a result every configured location
\* has exactly one terminal outcome recorded in the result: a success entry or
\* a 'skipped' entry in details, or an entry in failed_locations.
C27_EveryLocationHasTerminalOutcome ==
    pc = "returned"
    => \A k \in 1..N :
          LET name     == locations[k].name
              Recorded == \E e \in Range(result.details) :
                              e.location = name /\ HasKey(e, "source_id")
              Skipped  == \E e \in Range(result.details) :
                              e.location = name /\ ~HasKey(e, "source_id")
              Failed   == /\ HasKey(result, "failed_locations")
                          /\ \E e \in Range(result.failed_locations) :
                                e.location = name
          IN  /\ Recorded \/ Skipped \/ Failed
              /\ ~(Recorded /\ Skipped)
              /\ ~(Recorded /\ Failed)
              /\ ~(Skipped /\ Failed)

\* C28: a returned result has `message` exactly when observations_extracted is
\* 0, and `failed_locations` exactly when some location of the run failed its
\* fetch on all 3 attempts.
C28_OptionalResultKeys ==
    pc = "returned"
    => /\ HasKey(result, "message") = (result.observations_extracted = 0)
       /\ HasKey(result, "failed_locations")
            = (\E k \in 1..Len(outcomes) : outcomes[k] = "fetch_failed")

\* A returned run in which the first location failed its 3 fetch attempts and
\* the second was recorded: failed_locations without message.
C28_Witness ==
    /\ pc = "returned"
    /\ outcomes = <<"fetch_failed", "recorded">>
    /\ HasKey(result, "failed_locations")
    /\ Len(result.failed_locations) = 1
    /\ ~HasKey(result, "message")
    /\ result.observations_extracted = 1

\* C30: the state record of a source is created by the write that follows its
\* first successful delivery, is overwritten only by the write that follows
\* the delivery of a strictly newer recorded_at, and is never deleted: across
\* the runs the latest_timestamp of every source never decreases.
C30_StateLifecycle ==
    [][ /\ \A k \in Keys :
            /\ store[k] # None
               => /\ store'[k] # None
                  /\ HasKey(store'[k], "latest_timestamp")
                  /\ StoredInstant(store'[k]) >= StoredInstant(store[k])
            /\ (store[k] = None /\ store'[k] # None)
               => /\ pc = "set_state"
                  /\ k = KeyOf(Location)
                  /\ OkSends(sendLog) = 1
                  /\ StoredInstant(store'[k]) = delivered[SourceId]
        /\ (stateWrites' > stateWrites /\ store[KeyOf(Location)] # None)
           => /\ OkSends(sendLog) = 1
              /\ StoredInstant(store'[KeyOf(Location)])
                   > StoredInstant(store[KeyOf(Location)])
              /\ StoredInstant(store'[KeyOf(Location)]) = delivered[SourceId]
      ]_vars

\* The record of a source was created with instant 1 in the first run and
\* overwritten with instant 2 in the second.
C30_Witness ==
    /\ pc = "returned"
    /\ runNo = 2
    /\ hadPrior
    /\ N = 1
    /\ stateWrites = 1
    /\ delivered[generate_source_id(locations[1].lat, locations[1].lon)] = 2
    /\ store[KeyOf(locations[1])] = NewState(fromtimestamp(2), locations[1].name)

\* ------------------------------------------- claims about the pull configuration
\* C29: validation accepts exactly when there is at least one location, every
\* location has lat in [-90, 90] and lon in [-180, 180], and units is metric,
\* imperial or standard, or omitted (then it is metric); everything else is
\* rejected with a validation error.
C29_ConfigAcceptedExactlyWhenValid ==
    validated # None
    => LET hasLocation == HasKey(config_data, "locations")
                          /\ Len(config_data.locations) >= 1
           inRange == \A k \in 1..Len(config_data.locations) :
                         /\ (0 - 90) <= config_data.locations[k].lat
                         /\ config_data.locations[k].lat <= 90
                         /\ (0 - 180) <= config_data.locations[k].lon
                         /\ config_data.locations[k].lon <= 180
           unitsOk == HasKey(config_data, "units")
                      => config_data.units \in {"metric", "imperial", "standard"}
           ok == hasLocation /\ inRange /\ unitsOk
       IN  /\ HasKey(validated, "value") = ok
           /\ ~ok => validated = [raised |-> ValidationError]
           /\ ok => /\ validated.value.locations = config_data.locations
                    /\ validated.value.units
                         = (IF HasKey(config_data, "units") THEN config_data.units
                            ELSE "metric")

\* Two locations on the limits and no units given: accepted, with metric.
C29_Witness ==
    /\ HasKey(validated, "value")
    /\ ~HasKey(config_data, "units")
    /\ Len(config_data.locations) = 2
    /\ config_data.locations[1].lat = 0 - 90
    /\ config_data.locations[1].lon = 180
    /\ config_data.locations[2].lat = 90
    /\ config_data.locations[2].lon = 0 - 180
    /\ validated.value.units = "metric"

\* ------------------------------------- claims about the multi-location client
\* C31: get_weather_data_for_locations never raises because of a location's
\* fetch or validation failure (a 401 included); it sends exactly one request
\* per location, in order, whatever happened to the earlier ones; and the
\* dict it returns has a key exactly for the source ids of the locations whose
\* request was answered with a valid body.
C31_LocationFailuresIsolated ==
    \A c \in 1..Len(clientCalls) :
        LET call == clientCalls[c]
            Succeeded(k) == /\ HasKey(call.nets[k], "status")
                            /\ call.nets[k].status = 200
                            /\ call.nets[k].body = FullPayload
        IN  call.fn = "get_weather_data_for_locations"
            => /\ HasKey(call.result, "value")
               /\ Len(call.requests) = Len(call.locations)
               /\ \A k \in 1..Len(call.locations) :
                     /\ call.requests[k].lat = call.locations[k].lat
                     /\ call.requests[k].lon = call.locations[k].lon
               /\ DOMAIN call.result.value
                    = {generate_source_id(call.locations[k].lat, call.locations[k].lon) :
                         k \in {j \in 1..Len(call.locations) : Succeeded(j)}}

\* The first location got a 401, the second a valid answer: one entry, for
\* the second location.
C31_Witness ==
    /\ Len(clientCalls) = 1
    /\ clientCalls[1].fn = "get_weather_data_for_locations"
    /\ Len(clientCalls[1].locations) = 2
    /\ clientCalls[1].locations[1].lat # clientCalls[1].locations[2].lat
    /\ clientCalls[1].nets[1] = [status |-> 401, body |-> EmptyDict]
    /\ clientCalls[1].nets[2] = [status |-> 200, body |-> FullPayload]
    /\ Len(clientCalls[1].requests) = 2
    /\ DOMAIN clientCalls[1].result.value
         = {generate_source_id(clientCalls[1].locations[2].lat,
                               clientCalls[1].locations[2].lon)}

\* ------------------------------------------- claims about the result of a run
\* C32: failed_locations gets an entry for a location exactly in the step in
\* which its third fetch attempt fails with an httpx error after the first two
\* failed that way, and no location is entered twice; a fetch that succeeds on
\* attempt 1, 2 or 3 with a payload leaves failed_locations alone, and that
\* payload is the one the handler goes on with.
C32_FailedExactlyAfterThreeFailures ==
    /\ [](/\ \A j, k \in 1..Len(failed_locations) :
                failed_locations[j].location = failed_locations[k].location => j = k
          /\ pc \in {"get_state", "send", "set_state"}
             => \A k \in 1..Len(failed_locations) :
                   failed_locations[k].location # Location.name)
    /\ [][ pc = "fetch"
           => LET ThirdFailure ==
                      /\ attempt = 3
                      /\ fetchLog = <<"http_error", "http_error">>
                         \/ fetchLog = <<"401", "401">>
                         \/ fetchLog = <<"http_error", "401">>
                         \/ fetchLog = <<"401", "http_error">>
                      /\ outcomes' = Append(outcomes, "fetch_failed")
              IN  /\ (failed_locations' # failed_locations) = ThirdFailure
                  /\ ThirdFailure
                     => /\ Len(failed_locations') = Len(failed_locations) + 1
                        /\ failed_locations'[Len(failed_locations')].location
                             = Location.name
                  /\ pc' = "get_state"
                     => /\ failed_locations' = failed_locations
                        /\ Len(fetchLog') \in 1..3
                        /\ fetchLog'[Len(fetchLog')] = "ok"
                        /\ weather_data'
                             \in PayloadsFor(<<Location.lat, Location.lon>>) \ {EmptyDict}
         ]_vars

\* The first location failed its three attempts; the second succeeded on the
\* third attempt and was recorded.
C32_Witness ==
    /\ pc = "returned"
    /\ outcomes = <<"fetch_failed", "recorded">>
    /\ fetchLog = <<"http_error", "http_error", "ok">>
    /\ Len(failed_locations) = 1
    /\ failed_locations[1].location = locations[1].name
    /\ result.failed_locations = failed_locations

\* C33: the counter goes up by one exactly in the step in which a send
\* succeeds, and every successful send is followed by one state write; so in
\* a returned result observations_extracted is the number of successful sends
\* of the run, the number of state writes of the run and the number of
\* details entries with a source_id, and it is at most the number of
\* configured locations.
C33_CountEqualsSendsAndWrites ==
    /\ [](/\ Running
             => total_observations = stateWrites + (IF pc = "set_state" THEN 1 ELSE 0)
          /\ pc = "returned"
             => /\ result.observations_extracted = total_observations
                /\ result.observations_extracted = stateWrites
                /\ result.observations_extracted
                     = Cardinality({k \in 1..Len(result.details) :
                                      HasKey(result.details[k], "source_id")})
                /\ result.observations_extracted <= N)
    /\ [][ Running
           => LET SendSucceeded ==
                      /\ pc = "send"
                      /\ Len(sendLog') = Len(sendLog) + 1
                      /\ sendLog'[Len(sendLog')].outcome = "ok"
              IN  /\ total_observations' = total_observations + (IF SendSucceeded THEN 1 ELSE 0)
                  /\ SendSucceeded => pc' = "set_state"
                  /\ stateWrites' = stateWrites + (IF pc = "set_state" THEN 1 ELSE 0)
         ]_vars

\* Two locations with different coordinates, both sent and recorded.
C33_Witness ==
    /\ pc = "returned"
    /\ N = 2
    /\ outcomes = <<"recorded", "recorded">>
    /\ result.observations_extracted = 2
    /\ stateWrites = 2
    /\ Len(result.details) = 2

\* C34 (as claimed): in a returned result every configured location has at
\* most one entry across details and failed_locations together, and it has
\* none only when its fetch returned an empty payload.
C34_AtMostOneEntryPerLocation ==
    pc = "returned"
    => \A k \in 1..N :
          LET name == locations[k].name
              entries ==
                  Cardinality({j \in 1..Len(result.details) :
                                 result.details[j].location = name})
                  + (IF HasKey(result, "failed_locations")
                     THEN Cardinality({j \in 1..Len(result.failed_locations) :
                                         result.failed_locations[j].location = name})
                     ELSE 0)
          IN  /\ entries <= 1
              /\ entries = 0 => outcomes[k] = "no_data"

\* C35: a location with the coordinates of an earlier location of the run has
\* that location's source id and state record; once the earlier one has been
\* delivered and recorded, a reading with recorded_at <= the recorded instant
\* ends as 'skipped - no new data' without a send, and whatever is sent for
\* the pair is strictly newer than what was recorded for it.
C35_DuplicateCoordinatesShareState ==
    [][ \A j \in 1..N :
          (/\ Running
           /\ j < i
           /\ locations[j].lat = Location.lat
           /\ locations[j].lon = Location.lon
           /\ outcomes[j] = "recorded")
          => /\ SourceId = generate_source_id(locations[j].lat, locations[j].lon)
             /\ store[StateKey] # None
             /\ store[KeyOf(locations[j])] # None
             /\ (/\ pc = "get_state"
                 /\ HasKey(weather_data, "dt")
                 /\ RecordedAt.instant <= StoredInstant(store[KeyOf(locations[j])]))
                => /\ outcomes' = Append(outcomes, "skipped")
                   /\ response_per_location'
                        = Append(response_per_location, SkippedEntry(Location.name))
                   /\ total_observations' = total_observations
                   /\ store' = store
                   /\ delivered' = delivered
             /\ pc = "send"
                => RecordedAt.instant > StoredInstant(store[KeyOf(locations[j])])
      ]_vars

\* Two locations with the same coordinates in one run: the first was recorded
\* with instant 2, the second was skipped.
C35_Witness ==
    /\ pc = "returned"
    /\ runNo = 1
    /\ N = 2
    /\ locations[1].lat = locations[2].lat
    /\ locations[1].lon = locations[2].lon
    /\ outcomes = <<"recorded", "skipped">>
    /\ StoredInstant(store[KeyOf(locations[1])]) = 2
    /\ result.observations_extracted = 1

\* C36: the step in which a run raises changes neither the state store nor
\* what has been delivered, and no result exists after it; what the aborted
\* run recorded is what the store holds when the next run starts; and in any
\* run a reading of a source with a state record goes on to the send exactly
\* when it is strictly newer than everything delivered for that source, the
\* deliveries of an aborted run included.
C36_AbortedRunNotRolledBack ==
    /\ [](pc = "raised"
          => /\ result = None
             /\ error # None
             /\ \A k \in 1..Len(outcomes) :
                   outcomes[k] = "recorded"
                   => /\ store[KeyOf(locations[k])] # None
                      /\ StoredInstant(store[KeyOf(locations[k])])
                           = delivered[generate_source_id(locations[k].lat,
                                                          locations[k].lon)])
    /\ [][ /\ (pc' = "raised" \/ pc = "raised")
              => (store' = store /\ delivered' = delivered)
           /\ (/\ pc = "get_state"
               /\ HasKey(weather_data, "dt") /\ HasKey(weather_data, "coord")
               /\ store[StateKey] # None)
              => (pc' = "send") = (RecordedAt.instant > delivered[SourceId])
         ]_vars

\* The first location was sent and recorded, then the send for the second
\* failed and the run raised: the record of the first is in the store and
\* there is no result.
C36_Witness ==
    /\ pc = "raised"
    /\ N = 2
    /\ i = 2
    /\ DistinctCoordinates
    /\ outcomes = <<"recorded">>
    /\ error = HTTPError
    /\ result = None
    /\ total_observations = 1
    /\ StoredInstant(store[KeyOf(locations[1])]) = 1

====
